---- MODULE Spec2Model ----
(***************************************************************************)
(* free - cross-platform memory display utility (src/free.c).              *)
(*                                                                         *)
(* One run of main(): the argument loop, the platform back-end             *)
(* retrieve_mem_stats() selected at build time by #ifdef, the derivation   *)
(* of used / available / swap_free and the printing of the report.         *)
(* Every system query of a back-end is one step; its outcome (failure, or  *)
(* the value the kernel returns) is drawn from a small set.                *)
(*                                                                         *)
(* Widths.  TLC's integers are 32-bit, so the C widths are scaled: a       *)
(* 32-bit counter (unsigned int, u_int, natural_t, int) is CounterBits     *)
(* wide and uint64_t is twice that, which keeps the one relation the code  *)
(* relies on (the product of two counters always fits the wide type).      *)
(* format_value and the arithmetic of the report are also modelled at the *)
(* true width of uint64_t, on limbs (SpecFormat, SpecReport).              *)
(***************************************************************************)
EXTENDS Integers, Sequences, FiniteSets, TLC

VARIABLES
    platform,     \* the #ifdef branch this build was compiled with
    argv,         \* argv[1..argc-1]
    i,            \* main's loop index (1-based position in argv)
    unit,         \* main's unit_t unit
    pc,           \* position in main / retrieve_mem_stats
    stats,        \* main's mem_stats_t stats: only the fields assigned so far
    loc,          \* locals of retrieve_mem_stats that are live across queries
    queries,      \* the platform queries issued so far, in order
    out,          \* lines written so far, stdout and stderr interleaved
    exit_status   \* << >> while running, <<code>> once the process has exited

vars == <<platform, argv, i, unit, pc, stats, loc, queries, out, exit_status>>

----------------------------------------------------------------------------
(* Bounds of the model *)

CounterBits == 2
MaxArgs == 2
MaxPages == 1
MaxSwapDevs == 1

(* Scaled integer types *)
CounterMod == 2 ^ CounterBits            \* stands for 2^32
Modulus == 2 ^ (2 * CounterBits)         \* stands for 2^64

U32(x) == x % CounterMod
U64(x) == x % Modulus

(* What the kernel may answer *)
PageCounts == 0 .. MaxPages
PageSizes == {1, 2}
ByteCounts == 0 .. MaxPages
\* counters that only reach mem_active / mem_wired, which main never reads
UnreadCounts == {0, MaxPages}

Platforms ==
    {"FreeBSD", "NetBSD", "OpenBSD", "DragonFly", "macOS", "illumos", "Haiku"}

Args == {"-m", "-V", "--help", "--bogus"}

ArgVectors == UNION {[1 .. n -> Args] : n \in 0 .. MaxArgs}

----------------------------------------------------------------------------
(* mem_stats_t: a field has a value only once it has been assigned *)

StatFields ==
    {"mem_total", "mem_free", "mem_active", "mem_inactive", "mem_wired",
     "mem_cache", "mem_buffers", "swap_total", "swap_used", "has_swap_info"}

Assign(s, f, v) ==
    [g \in (DOMAIN s) \cup {f} |-> IF g = f THEN v ELSE s[g]]

NoLocals == [x \in {} |-> 0]

(* The values a read of stats.f can yield: the value assigned, or, for a  *)
(* field the back-end never assigned, whatever the stack slot held.       *)
ReadStat(s, f) ==
    IF f \in DOMAIN s THEN {s[f]}
    ELSE IF f = "has_swap_info" THEN {0, 1}
    ELSE 0 .. (Modulus - 1)

----------------------------------------------------------------------------
(* Output *)

Line(stream, text, arg, u, cols) ==
    [stream |-> stream, text |-> text, arg |-> arg, unit |-> u, cols |-> cols]

HelpLine == Line("stdout", "usage", "", "", << >>)
VersionLine == Line("stdout", "version", "", "", << >>)
UnknownLine(a) == Line("stderr", "Unknown option: ", a, "", << >>)
DiagLine(q) == Line("stderr", "diagnostic", q, "", << >>)
HeaderLine == Line("stdout", "header", "", "", << >>)
MemLine(u, cols) == Line("stdout", "Mem:", "", u, cols)
SwapLine(u, cols) == Line("stdout", "Swap:", "", u, cols)

Query(name, ok) == [name |-> name, arg |-> 0, ok |-> ok]
QueryAt(name, n, ok) == [name |-> name, arg |-> n, ok |-> ok]

----------------------------------------------------------------------------
(* main: argument loop *)

UnitOf(a) ==
    CASE a \in {"-b", "--bytes"} -> "UNIT_BYTES"
      [] a \in {"-k", "--kilo"}  -> "UNIT_KILO"
      [] a \in {"-m", "--mega"}  -> "UNIT_MEGA"
      [] a \in {"-g", "--giga"}  -> "UNIT_GIGA"
      [] a \in {"-h", "--human"} -> "UNIT_HUMAN"
      [] OTHER                   -> "none"

Init ==
    /\ platform \in Platforms
    /\ argv \in ArgVectors
    /\ i = 1
    /\ unit = "UNIT_KILO"
    /\ pc = "parse"
    /\ stats = NoLocals
    /\ loc = NoLocals
    /\ queries = << >>
    /\ out = << >>
    /\ exit_status = << >>

(* what main prints for an argument that is no unit selector *)
OptionOutput(a) ==
    IF a \in {"-V", "--version"} THEN <<VersionLine>>
    ELSE IF a = "--help" THEN <<HelpLine>>
    ELSE <<UnknownLine(a), HelpLine>>

OptionReturnAlwaysFails(a) == 1

OptionReturnAlwaysSucceeds(a) == 0

(* and the value it returns *)
OptionReturn(a) ==
    IF a \in {"-V", "--version", "--help"} THEN 0 ELSE 1

SelectUnitOnce(current, a) ==
    IF current = "UNIT_KILO" THEN UnitOf(a) ELSE current

(* unit = UNIT_...: a selector overwrites whatever was selected before *)
SelectUnit(current, a) == UnitOf(a)

CurrentArgFromTheRight == argv[Len(argv) + 1 - i]

(* the argument that the loop body compares: argv[i], i counting up from 1 *)
CurrentArg == argv[i]

ParseArg ==
    /\ pc = "parse"
    /\ i <= Len(argv)
    /\ LET a == CurrentArg IN
        IF UnitOf(a) # "none" THEN
            /\ unit' = SelectUnit(unit, a)
            /\ i' = i + 1
            /\ UNCHANGED <<pc, out, exit_status>>
        ELSE
            /\ out' = out \o OptionOutput(a)
            /\ pc' = "exit"
            /\ exit_status' = <<OptionReturn(a)>>
            /\ UNCHANGED <<unit, i>>
    /\ UNCHANGED <<platform, argv, stats, loc, queries>>

(* the loop ends and main calls retrieve_mem_stats(&stats) *)
EntryPc ==
    CASE platform = "FreeBSD"   -> "fb_page_size"
      [] platform = "NetBSD"    -> "nb_uvmexp2"
      [] platform = "OpenBSD"   -> "ob_physmem"
      [] platform = "DragonFly" -> "df_physmem"
      [] platform = "macOS"     -> "mac_memsize"
      [] platform = "illumos"   -> "il_pagesize"
      [] platform = "Haiku"     -> "hk_system_info"

CallRetrieve ==
    /\ pc = "parse"
    /\ i > Len(argv)
    /\ pc' = EntryPc
    /\ UNCHANGED <<platform, argv, i, unit, stats, loc, queries, out, exit_status>>

----------------------------------------------------------------------------
(* Shared shapes of a back-end step *)

FatalWithStatusZero(q) ==
    /\ queries' = Append(queries, Query(q, FALSE))
    /\ out' = Append(out, DiagLine(q))
    /\ pc' = "exit"
    /\ exit_status' = <<0>>
    /\ UNCHANGED <<platform, argv, i, unit, stats, loc>>

(* err(1, ...) / errx(1, ...): a diagnostic on stderr, then exit(1) *)
Fatal(q) ==
    /\ queries' = Append(queries, Query(q, FALSE))
    /\ out' = Append(out, DiagLine(q))
    /\ pc' = "exit"
    /\ exit_status' = <<1>>
    /\ UNCHANGED <<platform, argv, i, unit, stats, loc>>

(* return 0 from retrieve_mem_stats: its locals die *)
Return(s) ==
    /\ stats' = s
    /\ loc' = NoLocals
    /\ pc' = "returned"

(* sysctlbyname(q) of a page counter the back-end cannot do without:      *)
(* failure is err(1, ...), success reads the counter into page_count and  *)
(* stores page_count * page_size in `field`.                              *)
RequiredPages(here, next, q, field, values) ==
    /\ pc = here
    /\ \/ Fatal(q)
       \/ \E n \in values :
            /\ queries' = Append(queries, Query(q, TRUE))
            /\ loc' = Assign(loc, "page_count", n)
            /\ stats' = Assign(stats, field, U64(n * loc.page_size))
            /\ pc' = next
            /\ UNCHANGED <<platform, argv, i, unit, out, exit_status>>

----------------------------------------------------------------------------
(* FreeBSD: retrieve_mem_stats *)

FreeBSD_page_size ==
    /\ pc = "fb_page_size"
    /\ \/ Fatal("vm.stats.vm.v_page_size")
       \/ \E ps \in PageSizes :
            /\ queries' = Append(queries, Query("vm.stats.vm.v_page_size", TRUE))
            /\ loc' = Assign(loc, "page_size", ps)
            /\ pc' = "fb_page_count"
            /\ UNCHANGED <<platform, argv, i, unit, stats, out, exit_status>>

FreeBSD_page_count ==
    RequiredPages("fb_page_count", "fb_free_count",
                  "vm.stats.vm.v_page_count", "mem_total", PageCounts)

FreeBSD_free_count ==
    RequiredPages("fb_free_count", "fb_active_count",
                  "vm.stats.vm.v_free_count", "mem_free", PageCounts)

FreeBSD_active_count ==
    RequiredPages("fb_active_count", "fb_inactive_count",
                  "vm.stats.vm.v_active_count", "mem_active", UnreadCounts)

FreeBSD_inactive_count ==
    RequiredPages("fb_inactive_count", "fb_wire_count",
                  "vm.stats.vm.v_inactive_count", "mem_inactive", PageCounts)

FreeBSD_wire_count ==
    RequiredPages("fb_wire_count", "fb_arc",
                  "vm.stats.vm.v_wire_count", "mem_wired", UnreadCounts)

FreeBSD_arc_usable_when_read(ok, arc_size) == ok

(* sysctlbyname(...) == 0 && arc_size > 0 *)
FreeBSD_arc_usable(ok, arc_size) == ok /\ arc_size > 0

(* kstat.zfs.misc.arcstats.size, read into arc_size (initialised to 0):   *)
(* used only when readable and non-zero                                   *)
FreeBSD_arc ==
    /\ pc = "fb_arc"
    /\ \E ok \in BOOLEAN, answer \in ByteCounts :
        LET arc_size == IF ok THEN answer ELSE 0 IN
        /\ queries' = Append(queries, Query("kstat.zfs.misc.arcstats.size", ok))
        /\ loc' = Assign(loc, "arc_size", arc_size)
        /\ IF FreeBSD_arc_usable(ok, arc_size)
           THEN /\ stats' = Assign(Assign(stats, "mem_cache", arc_size),
                                   "mem_buffers", 0)
                /\ pc' = "fb_swap_mib"
           ELSE /\ stats' = stats
                /\ pc' = "fb_cache_count"
    /\ UNCHANGED <<platform, argv, i, unit, out, exit_status>>

(* a failing read leaves page_count as it was *)
FreeBSD_cache_count ==
    /\ pc = "fb_cache_count"
    /\ \/ /\ queries' = Append(queries, Query("vm.stats.vm.v_cache_count", FALSE))
          /\ stats' = Assign(stats, "mem_cache", 0)
          /\ loc' = loc
       \/ \E n \in PageCounts :
            /\ queries' = Append(queries, Query("vm.stats.vm.v_cache_count", TRUE))
            /\ loc' = Assign(loc, "page_count", n)
            /\ stats' = Assign(stats, "mem_cache", U64(n * loc.page_size))
    /\ pc' = "fb_bufspace"
    /\ UNCHANGED <<platform, argv, i, unit, out, exit_status>>

(* vfs.bufspace is read into the unsigned int page_count and stored as is *)
FreeBSD_bufspace ==
    /\ pc = "fb_bufspace"
    /\ \/ /\ queries' = Append(queries, Query("vfs.bufspace", FALSE))
          /\ stats' = Assign(stats, "mem_buffers", 0)
          /\ loc' = loc
       \/ \E n \in PageCounts :
            /\ queries' = Append(queries, Query("vfs.bufspace", TRUE))
            /\ loc' = Assign(loc, "page_count", n)
            /\ stats' = Assign(stats, "mem_buffers", n)
    /\ pc' = "fb_swap_mib"
    /\ UNCHANGED <<platform, argv, i, unit, out, exit_status>>

(* sysctlnametomib("vm.swap_info"): both branches zero the swap totals *)
FreeBSD_swap_mib ==
    /\ pc = "fb_swap_mib"
    /\ LET zeroed == Assign(Assign(stats, "swap_total", 0), "swap_used", 0) IN
        \/ /\ queries' = Append(queries, Query("sysctlnametomib vm.swap_info", FALSE))
           /\ Return(Assign(zeroed, "has_swap_info", 1))
        \/ /\ queries' = Append(queries, Query("sysctlnametomib vm.swap_info", TRUE))
           /\ stats' = zeroed
           /\ loc' = Assign(loc, "dev", 0)
           /\ pc' = "fb_swap_dev"
    /\ UNCHANGED <<platform, argv, i, unit, out, exit_status>>

FreeBSD_swap_sum_in_blocks(sum, blocks, page_size) == U64(sum + blocks)

(* sum += (uint64_t)blocks * page_size *)
FreeBSD_swap_sum(sum, blocks, page_size) == U64(sum + blocks * page_size)

(* one iteration of for (i = 0; ; i++): read device i into xsw, break on  *)
(* failure                                                                *)
FreeBSD_swap_dev ==
    /\ pc = "fb_swap_dev"
    /\ \/ /\ queries' = Append(queries, QueryAt("sysctl vm.swap_info", loc.dev, FALSE))
          /\ Return(Assign(stats, "has_swap_info", 1))
       \/ /\ loc.dev < MaxSwapDevs
          /\ \E xsw_nblks \in PageCounts, xsw_used \in PageCounts :
              /\ queries' = Append(queries, QueryAt("sysctl vm.swap_info", loc.dev, TRUE))
              /\ stats' = Assign(Assign(stats,
                    "swap_total",
                    FreeBSD_swap_sum(stats.swap_total, xsw_nblks, loc.page_size)),
                    "swap_used",
                    FreeBSD_swap_sum(stats.swap_used, xsw_used, loc.page_size))
              /\ loc' = Assign(Assign(loc, "dev", loc.dev + 1), "xsw",
                               [xsw_nblks |-> xsw_nblks, xsw_used |-> xsw_used])
              /\ pc' = "fb_swap_dev"
    /\ UNCHANGED <<platform, argv, i, unit, out, exit_status>>

----------------------------------------------------------------------------
(* illumos / Solaris: retrieve_mem_stats *)

(* a call whose failure is err(1, ...) / errx(1, ...) and which yields no value *)
Illumos_required(here, next, q) ==
    /\ pc = here
    /\ \/ Fatal(q)
       \/ /\ queries' = Append(queries, Query(q, TRUE))
          /\ pc' = next
          /\ UNCHANGED <<platform, argv, i, unit, stats, loc, out, exit_status>>

Illumos_pagesize ==
    /\ pc = "il_pagesize"
    /\ \/ Fatal("sysconf _SC_PAGESIZE")
       \/ \E page_size \in PageSizes :
            /\ queries' = Append(queries, Query("sysconf _SC_PAGESIZE", TRUE))
            /\ loc' = [page_size |-> page_size, physmem |-> 0, freemem |-> 0,
                       pp_kernel |-> 0, arc_size |-> 0]
            /\ pc' = "il_kstat_open"
            /\ UNCHANGED <<platform, argv, i, unit, stats, out, exit_status>>

Illumos_kstat_open ==
    Illumos_required("il_kstat_open", "il_lookup_system_pages", "kstat_open")

Illumos_lookup_system_pages ==
    Illumos_required("il_lookup_system_pages", "il_read_system_pages",
                     "kstat_lookup unix:0:system_pages")

Illumos_read_system_pages ==
    Illumos_required("il_read_system_pages", "il_physmem",
                     "kstat_read unix:0:system_pages")

(* knp = kstat_data_lookup(ksp, q); if (knp) local = knp->value: a missing *)
(* entry leaves the local at its initial 0                                 *)
Illumos_data_lookup(here, next, q, local, values) ==
    /\ pc = here
    /\ \/ /\ queries' = Append(queries, Query(q, FALSE))
          /\ loc' = loc
       \/ \E v \in values :
            /\ queries' = Append(queries, Query(q, TRUE))
            /\ loc' = Assign(loc, local, v)
    /\ pc' = next
    /\ UNCHANGED <<platform, argv, i, unit, stats, out, exit_status>>

Illumos_physmem ==
    Illumos_data_lookup("il_physmem", "il_freemem",
                        "kstat_data_lookup physmem", "physmem", PageCounts)

Illumos_freemem ==
    Illumos_data_lookup("il_freemem", "il_pp_kernel",
                        "kstat_data_lookup freemem", "freemem", PageCounts)

Illumos_pp_kernel ==
    Illumos_data_lookup("il_pp_kernel", "il_lookup_arcstats",
                        "kstat_data_lookup pp_kernel", "pp_kernel", UnreadCounts)

(* ksp = kstat_lookup(kc, "zfs", 0, "arcstats"); ksp != NULL && kstat_read ... *)
Illumos_lookup_arcstats ==
    /\ pc = "il_lookup_arcstats"
    /\ \E ok \in BOOLEAN :
        /\ queries' = Append(queries, Query("kstat_lookup zfs:0:arcstats", ok))
        /\ pc' = IF ok THEN "il_read_arcstats" ELSE "il_swap_nswp"
    /\ UNCHANGED <<platform, argv, i, unit, stats, loc, out, exit_status>>

Illumos_read_arcstats ==
    /\ pc = "il_read_arcstats"
    /\ \E ok \in BOOLEAN :
        /\ queries' = Append(queries, Query("kstat_read zfs:0:arcstats", ok))
        /\ pc' = IF ok THEN "il_arc_size" ELSE "il_swap_nswp"
    /\ UNCHANGED <<platform, argv, i, unit, stats, loc, out, exit_status>>

Illumos_arc_size ==
    Illumos_data_lookup("il_arc_size", "il_swap_nswp",
                        "kstat_data_lookup size", "arc_size", ByteCounts)

(* the sizes of a non-empty swap table: one entry and several *)
SwapTableSizes == {1, 2}

(* kstat_close, the memory fields, then n = swapctl(SC_GETNSWP, NULL) *)
Illumos_swap_nswp ==
    /\ pc = "il_swap_nswp"
    /\ LET s1 == Assign(stats, "mem_total", U64(loc.physmem * loc.page_size))
           s2 == Assign(s1, "mem_free", U64(loc.freemem * loc.page_size))
           s3 == Assign(s2, "mem_wired", U64(loc.pp_kernel * loc.page_size))
           s4 == Assign(Assign(s3, "mem_active", 0), "mem_inactive", 0)
           s5 == Assign(Assign(s4, "mem_cache", loc.arc_size), "mem_buffers", 0)
       IN  \E n \in {-1, 0} \cup SwapTableSizes :
            /\ queries' = Append(queries, QueryAt("swapctl SC_GETNSWP", n, n >= 0))
            /\ IF n <= 0
               THEN Return(Assign(Assign(s5, "swap_total", 0), "swap_used", 0))
               ELSE /\ stats' = s5
                    /\ loc' = [page_size |-> loc.page_size, n |-> n]
                    /\ pc' = "il_swap_list"
    /\ UNCHANGED <<platform, argv, i, unit, out, exit_status>>

Illumos_swap_entry_replaces(acc, ste, page_size) ==
    [total |-> U64(ste[1] * page_size),
     used  |-> U64(U64(ste[1] - ste[2]) * page_size)]

(* the body of the loop: ste is <<ste_pages, ste_free>> *)
Illumos_swap_entry(acc, ste, page_size) ==
    [total |-> U64(acc.total + ste[1] * page_size),
     used  |-> U64(acc.used + U64(ste[1] - ste[2]) * page_size)]

(* the loop over swt_ent[0 .. n-1] *)
RECURSIVE Illumos_swap_sum(_, _, _, _)
Illumos_swap_sum(ents, k, page_size, acc) ==
    IF k > Len(ents) THEN acc
    ELSE Illumos_swap_sum(ents, k + 1, page_size,
                          Illumos_swap_entry(acc, ents[k], page_size))

(* malloc of the table, swapctl(SC_LIST, swt), then the sums; the log     *)
(* keeps the table that swapctl filled in                                 *)
Illumos_swap_list ==
    /\ pc = "il_swap_list"
    /\ \/ /\ out' = Append(out, DiagLine("malloc"))
          /\ pc' = "exit"
          /\ exit_status' = <<1>>
          /\ UNCHANGED <<stats, loc, queries>>
       \/ /\ queries' = Append(queries, Query("swapctl SC_LIST", FALSE))
          /\ Return(Assign(Assign(stats, "swap_total", 0), "swap_used", 0))
          /\ UNCHANGED <<out, exit_status>>
       \/ \E ents \in [1 .. loc.n -> PageCounts \X PageCounts] :
            LET sum == Illumos_swap_sum(ents, 1, loc.page_size,
                                        [total |-> 0, used |-> 0])
            IN  /\ queries' = Append(queries, QueryAt("swapctl SC_LIST", ents, TRUE))
                /\ Return(Assign(Assign(Assign(stats, "swap_total", sum.total),
                                        "swap_used", sum.used), "has_swap_info", 1))
                /\ UNCHANGED <<out, exit_status>>
    /\ UNCHANGED <<platform, argv, i, unit>>

----------------------------------------------------------------------------
(* Haiku: retrieve_mem_stats *)

\* <OS.h>'s page size constant, scaled like PageSizes
B_PAGE_SIZE == 2

Haiku_free_unclamped(max_pages, cached_pages) ==
    U64((max_pages - cached_pages) * B_PAGE_SIZE)

(* free = total - cached, 0 when the cache is not below the total *)
Haiku_free(max_pages, cached_pages) ==
    IF cached_pages < max_pages
    THEN U64((max_pages - cached_pages) * B_PAGE_SIZE)
    ELSE 0

Haiku_system_info ==
    /\ pc = "hk_system_info"
    /\ \/ Fatal("get_system_info")
       \/ \E max_pages \in PageCounts, cached_pages \in PageCounts :
            LET s1 == Assign(stats, "mem_total", U64(max_pages * B_PAGE_SIZE))
                s2 == Assign(s1, "mem_cache", U64(cached_pages * B_PAGE_SIZE))
                s3 == Assign(s2, "mem_free", Haiku_free(max_pages, cached_pages))
                s4 == Assign(Assign(Assign(Assign(s3, "mem_active", 0),
                        "mem_inactive", 0), "mem_wired", 0), "mem_buffers", 0)
                s5 == Assign(Assign(Assign(s4, "swap_total", 0),
                        "swap_used", 0), "has_swap_info", 0)
            IN  /\ queries' = Append(queries, Query("get_system_info", TRUE))
                /\ Return(s5)
                /\ UNCHANGED <<platform, argv, i, unit, out, exit_status>>

----------------------------------------------------------------------------
(* NetBSD: retrieve_mem_stats *)

(* sysctl VM_UVMEXP2 fills struct uvmexp_sysctl (int64_t fields) in one call *)
NetBSD_uvmexp2 ==
    /\ pc = "nb_uvmexp2"
    /\ \/ Fatal("vm.uvmexp2")
       \/ \E pagesize \in PageSizes, npages \in PageCounts, free \in PageCounts,
             active \in UnreadCounts, inactive \in PageCounts, wired \in UnreadCounts,
             execpages \in PageCounts, filepages \in PageCounts,
             swpages \in PageCounts, swpginuse \in PageCounts :
            LET s1 == Assign(stats, "mem_total", U64(npages * pagesize))
                s2 == Assign(s1, "mem_free", U64(free * pagesize))
                s3 == Assign(s2, "mem_active", U64(active * pagesize))
                s4 == Assign(s3, "mem_inactive", U64(inactive * pagesize))
                s5 == Assign(s4, "mem_wired", U64(wired * pagesize))
                s6 == Assign(s5, "mem_cache",
                             U64(U64(execpages + filepages) * pagesize))
            IN  /\ queries' = Append(queries, Query("vm.uvmexp2", TRUE))
                /\ stats' = s6
                /\ loc' = [page_size |-> pagesize,
                           swpages |-> swpages, swpginuse |-> swpginuse]
                /\ pc' = "nb_bufmem"
                /\ UNCHANGED <<platform, argv, i, unit, out, exit_status>>

NetBSD_bufmem ==
    /\ pc = "nb_bufmem"
    /\ \E ok \in BOOLEAN, bufmem \in ByteCounts :
        LET s1 == Assign(stats, "mem_buffers", IF ok THEN bufmem ELSE 0)
            s2 == Assign(s1, "swap_total", U64(loc.swpages * loc.page_size))
            s3 == Assign(s2, "swap_used", U64(loc.swpginuse * loc.page_size))
        IN  /\ queries' = Append(queries, Query("vm.bufmem", ok))
            /\ Return(Assign(s3, "has_swap_info", 1))
    /\ UNCHANGED <<platform, argv, i, unit, out, exit_status>>

----------------------------------------------------------------------------
(* OpenBSD: retrieve_mem_stats *)

OpenBSD_physmem ==
    /\ pc = "ob_physmem"
    /\ \/ Fatal("hw.physmem64")
       \/ \E physmem \in ByteCounts :
            /\ queries' = Append(queries, Query("hw.physmem64", TRUE))
            /\ stats' = Assign(stats, "mem_total", physmem)
            /\ pc' = "ob_uvmexp"
            /\ UNCHANGED <<platform, argv, i, unit, loc, out, exit_status>>

(* struct uvmexp's counters are int: the signed range of the scaled width *)
IntMin == -(CounterMod \div 2)

(* int arithmetic that wraps, as two's complement hardware does *)
WrapInt(x) == ((x - IntMin) % CounterMod) + IntMin

(* The residual npages - free - active - inactive - wired is computed in  *)
(* int and only then widened to int64_t and clamped at 0.  The counters   *)
(* are not negative, so the subtraction can only overflow downwards; that *)
(* is undefined behaviour: the build either wraps or keeps the exact      *)
(* difference in a wider register.                                        *)
OpenBSD_cache_pages(npages, free, active, inactive, wired) ==
    LET exact == npages - free - active - inactive - wired
        Clamped(x) == IF x < 0 THEN 0 ELSE x
    IN  IF exact >= IntMin THEN {Clamped(exact)}
        ELSE {Clamped(WrapInt(exact)), Clamped(exact)}

(* sysctl VM_UVMEXP fills struct uvmexp (int fields) in one call *)
OpenBSD_uvmexp ==
    /\ pc = "ob_uvmexp"
    /\ \/ Fatal("vm.uvmexp")
       \/ \E pagesize \in PageSizes, npages \in PageCounts, free \in PageCounts,
             active \in UnreadCounts, inactive \in PageCounts, wired \in UnreadCounts,
             swpages \in PageCounts, swpginuse \in PageCounts :
          \E cache_pages \in
                OpenBSD_cache_pages(npages, free, active, inactive, wired) :
            LET s1 == Assign(stats, "mem_free", U64(free * pagesize))
                s2 == Assign(s1, "mem_active", U64(active * pagesize))
                s3 == Assign(s2, "mem_inactive", U64(inactive * pagesize))
                s4 == Assign(s3, "mem_wired", U64(wired * pagesize))
                s5 == Assign(s4, "mem_cache", U64(cache_pages * pagesize))
                s6 == Assign(s5, "mem_buffers", 0)
                s7 == Assign(s6, "swap_total", U64(swpages * pagesize))
                s8 == Assign(s7, "swap_used", U64(swpginuse * pagesize))
            IN  /\ queries' = Append(queries, Query("vm.uvmexp", TRUE))
                /\ Return(Assign(s8, "has_swap_info", 1))
                /\ UNCHANGED <<platform, argv, i, unit, out, exit_status>>

----------------------------------------------------------------------------
(* DragonFly BSD: retrieve_mem_stats *)

DragonFly_physmem ==
    /\ pc = "df_physmem"
    /\ \/ Fatal("hw.physmem")
       \/ \E physmem \in ByteCounts :
            /\ queries' = Append(queries, Query("hw.physmem", TRUE))
            /\ stats' = Assign(stats, "mem_total", physmem)
            /\ pc' = "df_pagesize"
            /\ UNCHANGED <<platform, argv, i, unit, loc, out, exit_status>>

(* sysctlbyname(q) into a u_int local; err(1, ...) on failure *)
DragonFly_counter(here, next, q, local, values) ==
    /\ pc = here
    /\ \/ Fatal(q)
       \/ \E n \in values :
            /\ queries' = Append(queries, Query(q, TRUE))
            /\ loc' = Assign(loc, local, n)
            /\ pc' = next
            /\ UNCHANGED <<platform, argv, i, unit, stats, out, exit_status>>

DragonFly_pagesize ==
    DragonFly_counter("df_pagesize", "df_free_count",
                      "hw.pagesize", "page_size", PageSizes)

DragonFly_free_count ==
    DragonFly_counter("df_free_count", "df_active_count",
                      "vm.stats.vm.v_free_count", "v_free_count", PageCounts)

DragonFly_active_count ==
    DragonFly_counter("df_active_count", "df_inactive_count",
                      "vm.stats.vm.v_active_count", "v_active_count", UnreadCounts)

DragonFly_inactive_count ==
    DragonFly_counter("df_inactive_count", "df_wire_count",
                      "vm.stats.vm.v_inactive_count", "v_inactive_count", PageCounts)

DragonFly_wire_count ==
    DragonFly_counter("df_wire_count", "df_cache_count",
                      "vm.stats.vm.v_wire_count", "v_wire_count", UnreadCounts)

(* the last counter, then the conversion of all five to bytes *)
DragonFly_cache_count ==
    /\ pc = "df_cache_count"
    /\ \/ Fatal("vm.stats.vm.v_cache_count")
       \/ \E v_cache_count \in PageCounts :
            LET ps == loc.page_size
                s1 == Assign(stats, "mem_free", U64(loc.v_free_count * ps))
                s2 == Assign(s1, "mem_active", U64(loc.v_active_count * ps))
                s3 == Assign(s2, "mem_inactive", U64(loc.v_inactive_count * ps))
                s4 == Assign(s3, "mem_wired", U64(loc.v_wire_count * ps))
                s5 == Assign(s4, "mem_cache", U64(v_cache_count * ps))
            IN  /\ queries' = Append(queries, Query("vm.stats.vm.v_cache_count", TRUE))
                /\ stats' = Assign(s5, "mem_buffers", 0)
                /\ loc' = [page_size |-> ps]
                /\ pc' = "df_swap_size"
                /\ UNCHANGED <<platform, argv, i, unit, out, exit_status>>

(* vm.swap_size: on failure the function returns 0 with the totals zeroed *)
DragonFly_swap_size ==
    /\ pc = "df_swap_size"
    /\ \/ /\ queries' = Append(queries, Query("vm.swap_size", FALSE))
          /\ Return(Assign(Assign(stats, "swap_total", 0), "swap_used", 0))
       \/ \E swap_size \in PageCounts :
            /\ queries' = Append(queries, Query("vm.swap_size", TRUE))
            /\ loc' = Assign(loc, "swap_size", swap_size)
            /\ pc' = "df_swap_free"
            /\ stats' = stats
    /\ UNCHANGED <<platform, argv, i, unit, out, exit_status>>

DragonFly_swap_used_is_free(swap_size, swap_free, page_size) ==
    U64(swap_free * page_size)

(* (uint64_t)(swap_size - swap_free) * page_size: the difference is taken *)
(* in u_int, before the widening                                          *)
DragonFly_swap_used(swap_size, swap_free, page_size) ==
    U64(U32(swap_size - swap_free) * page_size)

DragonFly_swap_free ==
    /\ pc = "df_swap_free"
    /\ \/ Fatal("vm.swap_free")
       \/ \E swap_free \in PageCounts :
            LET s1 == Assign(stats, "swap_total", U64(loc.swap_size * loc.page_size))
                s2 == Assign(s1, "swap_used",
                        DragonFly_swap_used(loc.swap_size, swap_free, loc.page_size))
            IN  /\ queries' = Append(queries, QueryAt("vm.swap_free", swap_free, TRUE))
                /\ Return(Assign(s2, "has_swap_info", 1))
                /\ UNCHANGED <<platform, argv, i, unit, out, exit_status>>

----------------------------------------------------------------------------
(* macOS: retrieve_mem_stats *)

MacOS_memsize ==
    /\ pc = "mac_memsize"
    /\ \/ Fatal("hw.memsize")
       \/ \E memsize \in ByteCounts :
            /\ queries' = Append(queries, Query("hw.memsize", TRUE))
            /\ stats' = Assign(stats, "mem_total", memsize)
            /\ pc' = "mac_pagesize"
            /\ UNCHANGED <<platform, argv, i, unit, loc, out, exit_status>>

MacOS_pagesize ==
    /\ pc = "mac_pagesize"
    /\ \/ Fatal("hw.pagesize")
       \/ \E pagesize \in PageSizes :
            /\ queries' = Append(queries, Query("hw.pagesize", TRUE))
            /\ loc' = Assign(loc, "page_size", pagesize)
            /\ pc' = "mac_host_statistics64"
            /\ UNCHANGED <<platform, argv, i, unit, stats, out, exit_status>>

(* values of a natural_t counter, the largest one included *)
NaturalCounts == PageCounts \cup {CounterMod - 1}

(* host_statistics64 fills the local vm_stats (natural_t counters), from  *)
(* which the six byte fields are computed                                 *)
MacOS_host_statistics64 ==
    /\ pc = "mac_host_statistics64"
    /\ \/ Fatal("host_statistics64")
       \/ \E free_count \in PageCounts, active_count \in UnreadCounts,
             inactive_count \in PageCounts, wire_count \in UnreadCounts,
             speculative_count \in NaturalCounts,
             purgeable_count \in NaturalCounts,
             external_page_count \in PageCounts :
            LET ps == loc.page_size
                s1 == Assign(stats, "mem_free", U64(free_count * ps))
                s2 == Assign(s1, "mem_active", U64(active_count * ps))
                s3 == Assign(s2, "mem_inactive", U64(inactive_count * ps))
                s4 == Assign(s3, "mem_wired", U64(wire_count * ps))
                s5 == Assign(s4, "mem_cache",
                        U64(U32(speculative_count + purgeable_count) * ps))
                s6 == Assign(s5, "mem_buffers", U64(external_page_count * ps))
            IN  /\ queries' = Append(queries, Query("host_statistics64", TRUE))
                /\ stats' = s6
                /\ loc' = Assign(loc, "vm_stats",
                            [free_count |-> free_count,
                             active_count |-> active_count,
                             inactive_count |-> inactive_count,
                             wire_count |-> wire_count,
                             speculative_count |-> speculative_count,
                             purgeable_count |-> purgeable_count,
                             external_page_count |-> external_page_count])
                /\ pc' = "mac_swapusage"
                /\ UNCHANGED <<platform, argv, i, unit, out, exit_status>>

MacOS_swap_unavailable_flagged(s) ==
    Assign(Assign(Assign(s, "swap_total", 0), "swap_used", 0),
           "has_swap_info", 1)

(* the branch taken when sysctlbyname("vm.swapusage") returns -1 *)
MacOS_swap_unavailable(s) ==
    Assign(Assign(Assign(s, "swap_total", 0), "swap_used", 0),
           "has_swap_info", 0)

MacOS_swapusage ==
    /\ pc = "mac_swapusage"
    /\ \/ /\ queries' = Append(queries, Query("vm.swapusage", FALSE))
          /\ Return(MacOS_swap_unavailable(stats))
       \/ \E xsu_total \in ByteCounts, xsu_used \in ByteCounts :
            /\ queries' = Append(queries, Query("vm.swapusage", TRUE))
            /\ Return(Assign(Assign(Assign(stats, "swap_total", xsu_total),
                                    "swap_used", xsu_used), "has_swap_info", 1))
    /\ UNCHANGED <<platform, argv, i, unit, out, exit_status>>

----------------------------------------------------------------------------
(* main: derivation and report *)

UsesSimpleSubtractionWithDragonFly ==
    platform \in {"NetBSD", "OpenBSD", "DragonFly"}

UsesSimpleSubtraction == platform \in {"NetBSD", "OpenBSD"}

Available(free, inactive, cache) == U64(free + inactive + cache)

UsedFromFree(total, free, available) == U64(total - free)

Used(total, free, available) ==
    IF UsesSimpleSubtraction THEN U64(total - free) ELSE U64(total - available)

SwapFree(swap_total, swap_used) == U64(swap_total - swap_used)

BuffCache(cache, buffers) == U64(cache + buffers)

ShowSwapAlways(flag) == TRUE

ShowSwap(flag) == flag # 0

ReportOutputMemFirst(mem, swap, flag) ==
    <<mem, HeaderLine>> \o (IF ShowSwap(flag) THEN <<swap>> ELSE << >>)

(* the printf calls of the report, in program order *)
ReportOutput(mem, swap, flag) ==
    <<HeaderLine, mem>> \o (IF ShowSwap(flag) THEN <<swap>> ELSE << >>)

MainReport ==
    /\ pc = "returned"
    /\ \E total \in ReadStat(stats, "mem_total"),
          free \in ReadStat(stats, "mem_free"),
          inactive \in ReadStat(stats, "mem_inactive"),
          cache \in ReadStat(stats, "mem_cache"),
          buffers \in ReadStat(stats, "mem_buffers"),
          swap_total \in ReadStat(stats, "swap_total"),
          swap_used \in ReadStat(stats, "swap_used"),
          flag \in ReadStat(stats, "has_swap_info") :
        LET available == Available(free, inactive, cache)
            used == Used(total, free, available)
            mem == MemLine(unit, <<total, used, free,
                                   BuffCache(cache, buffers), available>>)
            swap == SwapLine(unit, <<swap_total, swap_used,
                                     SwapFree(swap_total, swap_used)>>)
        IN  out' = out \o ReportOutput(mem, swap, flag)
    /\ pc' = "exit"
    /\ exit_status' = <<0>>
    /\ UNCHANGED <<platform, argv, i, unit, stats, loc, queries>>

----------------------------------------------------------------------------

Next ==
    \/ ParseArg
    \/ CallRetrieve
    \/ FreeBSD_page_size
    \/ FreeBSD_page_count
    \/ FreeBSD_free_count
    \/ FreeBSD_active_count
    \/ FreeBSD_inactive_count
    \/ FreeBSD_wire_count
    \/ FreeBSD_arc
    \/ FreeBSD_cache_count
    \/ FreeBSD_bufspace
    \/ FreeBSD_swap_mib
    \/ FreeBSD_swap_dev
    \/ NetBSD_uvmexp2
    \/ NetBSD_bufmem
    \/ OpenBSD_physmem
    \/ OpenBSD_uvmexp
    \/ DragonFly_physmem
    \/ DragonFly_pagesize
    \/ DragonFly_free_count
    \/ DragonFly_active_count
    \/ DragonFly_inactive_count
    \/ DragonFly_wire_count
    \/ DragonFly_cache_count
    \/ DragonFly_swap_size
    \/ DragonFly_swap_free
    \/ MacOS_memsize
    \/ MacOS_pagesize
    \/ MacOS_host_statistics64
    \/ MacOS_swapusage
    \/ Illumos_pagesize
    \/ Illumos_kstat_open
    \/ Illumos_lookup_system_pages
    \/ Illumos_read_system_pages
    \/ Illumos_physmem
    \/ Illumos_freemem
    \/ Illumos_pp_kernel
    \/ Illumos_lookup_arcstats
    \/ Illumos_read_arcstats
    \/ Illumos_arc_size
    \/ Illumos_swap_nswp
    \/ Illumos_swap_list
    \/ Haiku_system_info
    \/ MainReport

Spec == Init /\ [][Next]_vars

----------------------------------------------------------------------------
(* uint64_t at its true width.  The constants of format_value reach 2^50, *)
(* beyond TLC's integers, so a byte count that is to be formatted is kept *)
(* as seven limbs in base KILOBYTE, least significant first (2^70 > 2^64). *)

KILOBYTE == 1024

Limbs == 1 .. 7

WideZero == <<0, 0, 0, 0, 0, 0, 0>>

(* the limbs of an integer small enough for TLC (below 2^31) *)
Wide(n) ==
    LET Limb(k) == IF k > 4 THEN 0 ELSE (n \div KILOBYTE ^ (k - 1)) % KILOBYTE
    IN  <<Limb(1), Limb(2), Limb(3), Limb(4), Limb(5), Limb(6), Limb(7)>>

(* KILOBYTE ^ e *)
Power(e) ==
    LET Limb(k) == IF k = e + 1 THEN 1 ELSE 0
    IN  <<Limb(1), Limb(2), Limb(3), Limb(4), Limb(5), Limb(6), Limb(7)>>

MEGABYTE == Power(2)
GIGABYTE == Power(3)
TERABYTE == Power(4)
PETABYTE == Power(5)

(* reduction modulo 2^64 = 2^4 * KILOBYTE^6 *)
Wrap64(v) == [v EXCEPT ![7] = v[7] % (2 ^ 4)]

WideLess(a, b) ==
    \E k \in Limbs : a[k] < b[k] /\ \A j \in Limbs : j > k => a[j] = b[j]

RECURSIVE WideCarry(_, _, _)
WideCarry(a, b, k) ==
    IF k = 1 THEN 0
    ELSE (a[k - 1] + b[k - 1] + WideCarry(a, b, k - 1)) \div KILOBYTE

WideAdd(a, b) ==
    LET Limb(k) == (a[k] + b[k] + WideCarry(a, b, k)) % KILOBYTE
    IN  <<Limb(1), Limb(2), Limb(3), Limb(4), Limb(5), Limb(6), Limb(7)>>

RECURSIVE WideBorrow(_, _, _)
WideBorrow(a, b, k) ==
    IF k = 1 THEN 0
    ELSE IF a[k - 1] - b[k - 1] - WideBorrow(a, b, k - 1) < 0 THEN 1 ELSE 0

WideSub(a, b) ==
    LET Limb(k) == (a[k] - b[k] - WideBorrow(a, b, k)) % KILOBYTE
    IN  <<Limb(1), Limb(2), Limb(3), Limb(4), Limb(5), Limb(6), Limb(7)>>

RECURSIVE WideTimesCarry(_, _, _)
WideTimesCarry(v, m, k) ==
    IF k = 1 THEN 0
    ELSE (v[k - 1] * m + WideTimesCarry(v, m, k - 1)) \div KILOBYTE

(* v * m for a small multiplier m *)
WideTimes(v, m) ==
    LET Limb(k) == (v[k] * m + WideTimesCarry(v, m, k)) % KILOBYTE
    IN  <<Limb(1), Limb(2), Limb(3), Limb(4), Limb(5), Limb(6), Limb(7)>>

(* short division by a small divisor d: the remainder of limbs k..7 *)
RECURSIVE WideRem(_, _, _)
WideRem(v, d, k) ==
    IF k > 7 THEN 0 ELSE (WideRem(v, d, k + 1) * KILOBYTE + v[k]) % d

WideDiv(v, d) ==
    LET Limb(k) == (WideRem(v, d, k + 1) * KILOBYTE + v[k]) \div d
    IN  <<Limb(1), Limb(2), Limb(3), Limb(4), Limb(5), Limb(6), Limb(7)>>

(* value / KILOBYTE^e: uint64_t division truncates *)
RECURSIVE DivPower(_, _)
DivPower(v, e) == IF e = 0 THEN v ELSE DivPower(WideDiv(v, KILOBYTE), e - 1)

(* uint64_t addition and subtraction *)
Add64(a, b) == Wrap64(WideAdd(a, b))
Sub64(a, b) == Wrap64(WideSub(a, b))

----------------------------------------------------------------------------
(* format_value *)

(* what snprintf leaves in buf: the digits before the point, the digit    *)
(* after it (none for %llu) and the letter that follows                   *)
Buf(whole, tenth, suffix) == [whole |-> whole, tenth |-> tenth, suffix |-> suffix]

(* "%llu" *)
Plain(v) == Buf(v, << >>, "")

(* number of significant bits of v *)
BitLength(v) ==
    IF v = WideZero THEN 0
    ELSE LET top == CHOOSE k \in Limbs :
                        v[k] # 0 /\ \A j \in Limbs : j > k => v[j] = 0
         IN  10 * (top - 1) + Cardinality({n \in 0 .. 9 : 2 ^ n <= v[top]})

(* (double)value: a 53-bit significand, round to nearest, ties to even.   *)
(* The result is an integer, kept as limbs; it may be 2^64 itself.        *)
ToDouble(v) ==
    LET s == BitLength(v) - 53 IN
    IF s <= 0 THEN v
    ELSE LET m == 2 ^ s
             rem == WideRem(v, m, 1)
             odd == WideDiv(v, m)[1] % 2 = 1
             down == WideSub(v, Wide(rem))
         IN  IF 2 * rem > m \/ (2 * rem = m /\ odd)
             THEN WideAdd(down, Wide(m))
             ELSE down

(* case UNIT_HUMAN with the rounding of the quotient replaced by a cut *)
OneDecimalTruncated(d, e, letter) ==
    LET q == DivPower(WideTimes(d, 10), e)
        t == q[1] + q[2] * KILOBYTE + q[3] * KILOBYTE * KILOBYTE
    IN  Buf(Wide(t \div 10), <<t % 10>>, letter)

(* "%.1f" of d / KILOBYTE^e followed by the tier letter: the quotient is  *)
(* exact in binary, printf rounds it to the nearest tenth, ties to even   *)
OneDecimal(d, e, letter) ==
    LET n == WideTimes(d, 10)
        q == DivPower(n, e)
        floor == q[1] + q[2] * KILOBYTE + q[3] * KILOBYTE * KILOBYTE
        half == n[e] = KILOBYTE \div 2 /\ \A j \in Limbs : j < e => n[j] = 0
        above == n[e] >= KILOBYTE \div 2 /\ ~half
        t == IF above \/ (half /\ floor % 2 = 1) THEN floor + 1 ELSE floor
    IN  Buf(Wide(t \div 10), <<t % 10>>, letter)

HumanTierAfterRounding(value) ==
    IF ~WideLess(value, PETABYTE) THEN OneDecimal(ToDouble(value), 5, "P")
    ELSE IF ~WideLess(value, TERABYTE) THEN OneDecimal(ToDouble(value), 4, "T")
    ELSE IF ~WideLess(value, GIGABYTE) THEN OneDecimal(ToDouble(value), 3, "G")
    ELSE IF ~WideLess(WideAdd(value, Wide(52)), MEGABYTE)
         THEN OneDecimal(ToDouble(value), 2, "M")
    ELSE IF ~WideLess(value, Wide(KILOBYTE))
         THEN OneDecimal(ToDouble(value), 1, "K")
    ELSE Buf(value, << >>, "B")

(* case UNIT_HUMAN: the chain of comparisons against the tier constants *)
Human(value) ==
    IF ~WideLess(value, PETABYTE) THEN OneDecimal(ToDouble(value), 5, "P")
    ELSE IF ~WideLess(value, TERABYTE) THEN OneDecimal(ToDouble(value), 4, "T")
    ELSE IF ~WideLess(value, GIGABYTE) THEN OneDecimal(ToDouble(value), 3, "G")
    ELSE IF ~WideLess(value, MEGABYTE) THEN OneDecimal(ToDouble(value), 2, "M")
    ELSE IF ~WideLess(value, Wide(KILOBYTE))
         THEN OneDecimal(ToDouble(value), 1, "K")
    ELSE Buf(value, << >>, "B")

UnitPowerOfKilo(u) == IF u = "UNIT_BYTES" THEN 0 ELSE 1

(* the exponent of the divisor of an integer unit *)
UnitPower(u) ==
    CASE u = "UNIT_BYTES" -> 0
      [] u = "UNIT_KILO"  -> 1
      [] u = "UNIT_MEGA"  -> 2
      [] u = "UNIT_GIGA"  -> 3

format_value(value, u) ==
    IF u = "UNIT_HUMAN" THEN Human(value)
    ELSE Plain(DivPower(value, UnitPower(u)))

Units == {"UNIT_BYTES", "UNIT_KILO", "UNIT_MEGA", "UNIT_GIGA", "UNIT_HUMAN"}

(* The byte counts format_value is applied to: every limb is one of a few *)
(* digits that sit on and next to the tier and rounding boundaries.       *)
LimbSamples == {0, 1, 256, 512, 1023}
TopLimbSamples == {0, 1, 15}

ValueSamples ==
    {<<a, b, c, d, e, f, top>> :
        a \in LimbSamples, b \in LimbSamples, c \in LimbSamples,
        d \in LimbSamples, e \in LimbSamples, f \in LimbSamples,
        top \in TopLimbSamples}

(* a call format_value(value, unit, buf, sizeof buf): the parameters live *)
(* in loc, unit is the caller's, and the call fills loc.buf               *)
InitFormat ==
    /\ platform \in {"FreeBSD"}
    /\ argv = << >>
    /\ i = 1
    /\ unit \in Units
    /\ pc = "format_value"
    /\ stats = NoLocals
    /\ loc \in {[value |-> v] : v \in ValueSamples}
    /\ queries = << >>
    /\ out = << >>
    /\ exit_status = << >>

FormatValue ==
    /\ pc = "format_value"
    /\ loc' = Assign(loc, "buf", format_value(loc.value, unit))
    /\ pc' = "formatted"
    /\ UNCHANGED <<platform, argv, i, unit, stats, queries, out, exit_status>>

NextFormat == FormatValue

SpecFormat == InitFormat /\ [][NextFormat]_vars

----------------------------------------------------------------------------
(* main after retrieve_mem_stats has returned, at the true width: the     *)
(* derivation in uint64_t, then format_value on every column.             *)

(* n * MEGABYTE *)
MiB(n) == WideTimes(WideTimes(Wide(n), KILOBYTE), KILOBYTE)

AvailableWithoutCache64(free, inactive, cache) == Add64(free, inactive)

Available64(free, inactive, cache) == Add64(Add64(free, inactive), cache)

Used64(total, free, available) ==
    IF UsesSimpleSubtraction THEN Sub64(total, free) ELSE Sub64(total, available)

BuffCache64(cache, buffers) == Add64(cache, buffers)

SwapFree64(swap_total, swap_used) == Sub64(swap_total, swap_used)

(* the snapshots the report is derived from *)
SnapshotSamples ==
    {[mem_total |-> total, mem_free |-> free, mem_active |-> MiB(1000),
      mem_inactive |-> inactive, mem_wired |-> MiB(1000), mem_cache |-> cache,
      mem_buffers |-> buffers, swap_total |-> swap_total,
      swap_used |-> swap_used, has_swap_info |-> flag] :
        total \in {MiB(16384), Wide(1024), Wide(1)},
        free \in {MiB(78), Wide(512), Wide(2)},
        inactive \in {MiB(1200), Wide(0)},
        cache \in {MiB(1094), Wide(512)},
        buffers \in {MiB(1000), Wide(512)},
        swap_total \in {MiB(2048), Wide(0)},
        swap_used \in {MiB(1), Wide(0)},
        flag \in {0, 1}}

InitReport ==
    /\ platform \in {"FreeBSD", "OpenBSD"}
    /\ argv = << >>
    /\ i = 1
    /\ unit \in Units
    /\ pc = "returned"
    /\ stats \in SnapshotSamples
    /\ loc = NoLocals
    /\ queries = << >>
    /\ out = << >>
    /\ exit_status = << >>

PrintReport ==
    /\ pc = "returned"
    /\ LET available == Available64(stats.mem_free, stats.mem_inactive,
                                    stats.mem_cache)
           used == Used64(stats.mem_total, stats.mem_free, available)
           buff_cache == BuffCache64(stats.mem_cache, stats.mem_buffers)
           swap_free == SwapFree64(stats.swap_total, stats.swap_used)
           mem == MemLine(unit, <<format_value(stats.mem_total, unit),
                                  format_value(used, unit),
                                  format_value(stats.mem_free, unit),
                                  format_value(buff_cache, unit),
                                  format_value(available, unit)>>)
           swap == SwapLine(unit, <<format_value(stats.swap_total, unit),
                                    format_value(stats.swap_used, unit),
                                    format_value(swap_free, unit)>>)
       IN  out' = out \o ReportOutput(mem, swap, stats.has_swap_info)
    /\ pc' = "exit"
    /\ exit_status' = <<0>>
    /\ UNCHANGED <<platform, argv, i, unit, stats, loc, queries>>

NextReport == PrintReport

SpecReport == InitReport /\ [][NextReport]_vars

----------------------------------------------------------------------------
(* The argument loop over every spelling of the unit selectors.  The run  *)
(* is followed to its end on the back-end with a single query.            *)

MaxSelectors == 3

Selectors ==
    {"-b", "--bytes", "-k", "--kilo", "-m", "--mega", "-g", "--giga",
     "-h", "--human"}

SelectorVectors ==
    UNION {[1 .. n -> Selectors \cup {"--help", "--bogus"}] :
                n \in 0 .. MaxSelectors}

InitArgs ==
    /\ platform = "Haiku"
    /\ argv \in SelectorVectors
    /\ i = 1
    /\ unit = "UNIT_KILO"
    /\ pc = "parse"
    /\ stats = NoLocals
    /\ loc = NoLocals
    /\ queries = << >>
    /\ out = << >>
    /\ exit_status = << >>

NextArgs ==
    \/ ParseArg
    \/ CallRetrieve
    \/ Haiku_system_info
    \/ MainReport

SpecArgs == InitArgs /\ [][NextArgs]_vars

----------------------------------------------------------------------------
(* Vocabulary of the properties *)

Exited == pc = "exit"

LinesOf(text) == {k \in 1 .. Len(out) : out[k].text = text}

MemLines == LinesOf("Mem:")
SwapLines == LinesOf("Swap:")
ReportLines == LinesOf("header") \cup MemLines \cup SwapLines
Diagnostics == LinesOf("diagnostic")

Failed(names) == {k \in 1 .. Len(queries) :
                    queries[k].name \in names /\ ~queries[k].ok}

FlagAssigned == "has_swap_info" \in DOMAIN stats

(* the first argument that is no unit selector, 0 if there is none *)
FirstDecisive ==
    LET D == {k \in 1 .. Len(argv) : UnitOf(argv[k]) = "none"}
    IN  IF D = {} THEN 0 ELSE CHOOSE k \in D : \A m \in D : k <= m

ShortCircuits == {"-V", "--version", "--help"}

----------------------------------------------------------------------------
(* C1: in every Swap: line the third column is swap_total - swap_used and *)
(* is 0, not a wrapped value, when swap_used exceeds swap_total.          *)
C1_SwapFreeNeverWraps ==
    \A k \in SwapLines :
        LET c == out[k].cols
        IN  c[3] = IF c[2] > c[1] THEN 0 ELSE c[1] - c[2]

(* C2: in every Mem: line used is 0 whenever the subtrahend of its        *)
(* formula (available, or free in the simple form) exceeds total.         *)
C2_UsedSaturates ==
    \A k \in MemLines :
        LET c == out[k].cols
            subtrahend == IF UsesSimpleSubtraction THEN c[3] ELSE c[5]
        IN  subtrahend > c[1] => c[2] = 0

C4_SwapLineIffFlag ==
    /\ SwapLines # {} => MemLines # {}
    /\ (Exited /\ MemLines # {} /\ FlagAssigned) =>
            (SwapLines # {} <=> stats.has_swap_info # 0)
    /\ Cardinality(SwapLines) <= 1

C4_Witness ==
    /\ Exited
    /\ MemLines # {}
    /\ FlagAssigned
    /\ stats.has_swap_info = 0
    /\ SwapLines = {}

(* C5: when the back-end found no swap (no device enumerated, swap-size   *)
(* query unavailable, zero swap-table entries, no swap usage, or a        *)
(* platform without swap) the snapshot it returns has swap_total = 0,     *)
(* swap_used = 0 and has_swap_info = 0, and no Swap: line is printed.     *)
NoSwapFound ==
    \/ platform = "Haiku"
    \/ Failed({"sysctlnametomib vm.swap_info", "vm.swap_size", "vm.swapusage",
               "swapctl SC_GETNSWP", "swapctl SC_LIST"}) # {}
    \/ \E k \in 1 .. Len(queries) :
        \/ /\ queries[k].name = "sysctl vm.swap_info"
           /\ queries[k].arg = 0
           /\ ~queries[k].ok
        \/ /\ queries[k].name = "swapctl SC_GETNSWP"
           /\ queries[k].arg = 0

C5_NoSwapMeansNoSwapInfo ==
    (pc \in {"returned", "exit"} /\ exit_status # <<1>> /\ queries # << >>
        /\ NoSwapFound) =>
        /\ stats.swap_total = 0
        /\ stats.swap_used = 0
        /\ FlagAssigned
        /\ stats.has_swap_info = 0
        /\ SwapLines = {}

(* C6: a run in which a query for a required counter (page size, total,   *)
(* free) has failed prints no report line and ends with status 1.         *)
RequiredQueries ==
    {"vm.stats.vm.v_page_size", "vm.stats.vm.v_page_count",
     "vm.stats.vm.v_free_count", "vm.uvmexp2", "hw.physmem64", "vm.uvmexp",
     "hw.physmem", "hw.pagesize", "hw.memsize", "host_statistics64",
     "sysconf _SC_PAGESIZE", "kstat_open", "kstat_lookup unix:0:system_pages",
     "kstat_read unix:0:system_pages", "kstat_data_lookup physmem",
     "kstat_data_lookup freemem", "get_system_info"}

C6_RequiredFailureIsFatal ==
    Failed(RequiredQueries) # {} =>
        /\ ReportLines = {}
        /\ Exited => exit_status = <<1>>

(* C7: once a query for an optional counter (cache, buffers, swap,        *)
(* active, inactive) has failed, no diagnostic is ever written, the run   *)
(* ends with the report printed and status 0, a cache or buffer counter   *)
(* that failed is reported as 0, and a failed swap query leaves the       *)
(* report without a Swap: line.                                           *)
OptionalQueries ==
    {"vm.stats.vm.v_active_count", "vm.stats.vm.v_inactive_count",
     "kstat.zfs.misc.arcstats.size", "vm.stats.vm.v_cache_count",
     "vfs.bufspace", "sysctlnametomib vm.swap_info", "sysctl vm.swap_info",
     "vm.bufmem", "vm.swap_size", "vm.swap_free", "vm.swapusage",
     "kstat_lookup zfs:0:arcstats", "kstat_read zfs:0:arcstats",
     "kstat_data_lookup size", "swapctl SC_GETNSWP", "swapctl SC_LIST"}

SwapQueries ==
    {"sysctlnametomib vm.swap_info", "vm.swap_size", "vm.swap_free",
     "vm.swapusage", "swapctl SC_GETNSWP", "swapctl SC_LIST"}

C7_OptionalFailureIsAbsorbed ==
    Failed(OptionalQueries) # {} =>
        /\ Diagnostics = {}
        /\ Exited => (exit_status = <<0>> /\ MemLines # {})
        /\ (Failed({"vm.stats.vm.v_cache_count"}) # {} /\ Exited) =>
                stats.mem_cache = 0
        /\ (Failed({"vfs.bufspace", "vm.bufmem"}) # {} /\ Exited) =>
                stats.mem_buffers = 0
        /\ (Failed(SwapQueries) # {} /\ Exited) => SwapLines = {}

(* C8: when the first argument that is no unit selector is --help or      *)
(* -V/--version, no platform query is ever issued, no field of the        *)
(* snapshot is written, nothing is printed before that argument is        *)
(* reached, and the run ends with exactly the usage text (or the version  *)
(* string) on standard output and status 0.                               *)
C8_HelpVersionShortCircuit ==
    (FirstDecisive # 0 /\ argv[FirstDecisive] \in ShortCircuits) =>
        /\ pc \in {"parse", "exit"}
        /\ queries = << >>
        /\ DOMAIN stats = {}
        /\ ~Exited => out = << >>
        /\ Exited =>
            /\ exit_status = <<0>>
            /\ Len(out) = 1
            /\ out[1].stream = "stdout"
            /\ out[1].text =
                 IF argv[FirstDecisive] = "--help" THEN "usage" ELSE "version"

C8_Witness ==
    /\ Exited
    /\ FirstDecisive = 2
    /\ argv[FirstDecisive] = "--help"
    /\ out = <<HelpLine>>

(* C9: when the first argument that is no unit selector is unrecognized,  *)
(* no platform query is ever issued and the run ends with status 1 after  *)
(* writing the error line naming the argument to the error stream and     *)
(* then the usage text, and nothing else.                                 *)
C9_UnknownOption ==
    (FirstDecisive # 0 /\ argv[FirstDecisive] \notin ShortCircuits) =>
        /\ pc \in {"parse", "exit"}
        /\ queries = << >>
        /\ DOMAIN stats = {}
        /\ ~Exited => out = << >>
        /\ Exited =>
            /\ exit_status = <<1>>
            /\ Len(out) = 2
            /\ out[1].stream = "stderr"
            /\ out[1].text = "Unknown option: "
            /\ out[1].arg = argv[FirstDecisive]
            /\ out[2].text = "usage"

C9_Witness ==
    /\ Exited
    /\ FirstDecisive = 2
    /\ argv[FirstDecisive] = "--bogus"
    /\ exit_status = <<1>>
    /\ Len(out) = 2

C11_DragonFlyUsedIsTotalMinusFree ==
    platform = "DragonFly" =>
        \A k \in MemLines :
            LET c == out[k].cols IN
            /\ c[2] = U64(c[1] - c[3])
            /\ c[5] = U64(stats.mem_free + stats.mem_inactive + stats.mem_cache)

----------------------------------------------------------------------------
(* Vocabulary of the properties of format_value *)

Formatted == pc = "formatted"

(* q * KILOBYTE^e *)
RECURSIVE TimesPower(_, _)
TimesPower(q, e) ==
    IF e = 0 THEN q ELSE TimesPower(WideTimes(q, KILOBYTE), e - 1)

(* |a - b| *)
Distance(a, b) == IF WideLess(a, b) THEN WideSub(b, a) ELSE WideSub(a, b)

(* the divisor the caller's unit stands for, as an exponent of 1024 *)
StatedPower ==
    CASE unit = "UNIT_BYTES" -> 0
      [] unit = "UNIT_KILO"  -> 1
      [] unit = "UNIT_MEGA"  -> 2
      [] unit = "UNIT_GIGA"  -> 3
      [] OTHER               -> 0

TierIndex(letter) ==
    CASE letter = "B" -> 0
      [] letter = "K" -> 1
      [] letter = "M" -> 2
      [] letter = "G" -> 3
      [] letter = "T" -> 4
      [] letter = "P" -> 5

(* the byte counts on either side of every tier boundary *)
TierBoundaries ==
    {Power(e) : e \in 0 .. 5} \cup {WideSub(Power(e), Wide(1)) : e \in 1 .. 5}

(* C12: for the units Bytes, Kilo, Mega and Giga the buffer holds a plain *)
(* decimal integer q, with no fraction and no letter, and q is the byte   *)
(* count divided by 1, 1024, 1024^2 or 1024^3 rounded down: q * divisor   *)
(* <= v < (q + 1) * divisor; for Bytes q is v itself.                     *)
C12_IntegerUnitsTruncate ==
    (Formatted /\ unit # "UNIT_HUMAN") =>
        LET v == loc.value
            b == loc.buf
            e == StatedPower
            low == TimesPower(b.whole, e)
        IN  /\ b.tenth = << >>
            /\ b.suffix = ""
            /\ \A k \in Limbs : k > 7 - e => b.whole[k] = 0
            /\ ~WideLess(v, low)
            /\ WideLess(v, WideAdd(low, Power(e)))
            /\ unit = "UNIT_BYTES" => b.whole = v

C12_Witness ==
    /\ Formatted
    /\ unit = "UNIT_MEGA"
    /\ loc.value = <<1023, 1023, 1, 0, 0, 0, 15>>
    /\ loc.buf = Plain(<<1, 0, 0, 0, 15, 0, 0>>)

(* C13: in Human mode the letter is that of the largest tier among P, T,  *)
(* G, M, K of which the byte count holds at least one unit, and B below   *)
(* 1024; at byte scale the buffer is the integer itself, otherwise it is  *)
(* the quotient by the tier with exactly one decimal digit, the nearest   *)
(* tenth (within one tenth once the conversion to double is inexact, from *)
(* 2^53 on).  1023 gives 1023B, 1024 gives 1.0K, 1536 gives 1.5K and      *)
(* 1024*1024 gives 1.0M, and the tier never decreases as the byte count   *)
(* grows.                                                                 *)
C13_HumanTier ==
    (Formatted /\ unit = "UNIT_HUMAN") =>
        LET v == loc.value
            b == loc.buf
            e == TierIndex(b.suffix)
        IN  /\ b.suffix \in {"B", "K", "M", "G", "T", "P"}
            /\ ~WideLess(v, Power(e)) \/ (e = 0 /\ v = WideZero)
            /\ e < 5 => WideLess(v, Power(e + 1))
            /\ e = 0 => b = Buf(v, << >>, "B")
            /\ e > 0 =>
                /\ Len(b.tenth) = 1
                /\ b.tenth[1] \in 0 .. 9
                /\ LET tenths == WideAdd(WideTimes(b.whole, 10), Wide(b.tenth[1]))
                       d == Distance(WideTimes(v, 10), TimesPower(tenths, e))
                   IN  /\ ~WideLess(Power(e), d)
                       /\ WideLess(v, WideTimes(Power(5), 8)) =>
                              ~WideLess(Power(e), WideTimes(d, 2))
            /\ v = Wide(1023) => b = Buf(Wide(1023), << >>, "B")
            /\ v = Wide(1024) => b = Buf(Wide(1), <<0>>, "K")
            /\ v = Wide(1536) => b = Buf(Wide(1), <<5>>, "K")
            /\ v = Wide(1024 * 1024) => b = Buf(Wide(1), <<0>>, "M")
            /\ \A w \in TierBoundaries :
                LET f == TierIndex(format_value(w, "UNIT_HUMAN").suffix)
                IN  /\ WideLess(w, v) => f <= e
                    /\ WideLess(v, w) => e <= f

C13_Witness ==
    /\ Formatted
    /\ unit = "UNIT_HUMAN"
    /\ loc.value = Wide(1536)
    /\ loc.buf = Buf(Wide(1), <<5>>, "K")

(* C14: the Mem: line holds, in this order, format(total), format(used),  *)
(* format(free), format(cache + buffers) and format(free + inactive +     *)
(* cache), used being total - free or total - available by the build's    *)
(* formula; every column is derived in bytes and converted afterwards, so *)
(* cache = buffers = 512 bytes show as 1 under Kilo.  The snapshot        *)
(* total=16384M, free=78M, inactive=1200M, cache=1094M, buffers=1000M     *)
(* under available-subtraction and Mega shows buff/cache 2094, available  *)
(* 2372 and used 14012.                                                   *)
C14_MemLineColumns ==
    \A k \in MemLines :
        LET c == out[k].cols
            available == Add64(Add64(stats.mem_free, stats.mem_inactive),
                               stats.mem_cache)
            used == IF platform \in {"NetBSD", "OpenBSD"}
                    THEN Sub64(stats.mem_total, stats.mem_free)
                    ELSE Sub64(stats.mem_total, available)
        IN  /\ out[k].unit = unit
            /\ c = <<format_value(stats.mem_total, unit),
                     format_value(used, unit),
                     format_value(stats.mem_free, unit),
                     format_value(Add64(stats.mem_cache, stats.mem_buffers), unit),
                     format_value(available, unit)>>
            /\ (/\ unit = "UNIT_KILO"
                /\ stats.mem_cache = Wide(512)
                /\ stats.mem_buffers = Wide(512)) => c[4] = Plain(Wide(1))
            /\ (/\ unit = "UNIT_MEGA"
                /\ platform = "FreeBSD"
                /\ stats.mem_total = MiB(16384)
                /\ stats.mem_free = MiB(78)
                /\ stats.mem_inactive = MiB(1200)
                /\ stats.mem_cache = MiB(1094)
                /\ stats.mem_buffers = MiB(1000)) =>
                    c = <<Plain(Wide(16384)), Plain(Wide(14012)), Plain(Wide(78)),
                          Plain(Wide(2094)), Plain(Wide(2372))>>

C14_Witness ==
    /\ Exited
    /\ unit = "UNIT_MEGA"
    /\ platform = "FreeBSD"
    /\ stats.mem_total = MiB(16384)
    /\ stats.mem_inactive = MiB(1200)
    /\ \E k \in MemLines :
        out[k].cols = <<Plain(Wide(16384)), Plain(Wide(14012)), Plain(Wide(78)),
                        Plain(Wide(2094)), Plain(Wide(2372))>>

----------------------------------------------------------------------------
(* Vocabulary of the properties of a whole run *)

(* steps taken so far: arguments consumed, queries issued, lines written  *)
(* and the call of retrieve_mem_stats                                     *)
RunLength == i + Len(queries) + Len(out) + (IF pc = "parse" THEN 0 ELSE 1)

(* no back-end issues more than 11 queries besides the swap devices *)
LongestRun == (MaxArgs + 1) + 1 + (11 + MaxSwapDevs + 1) + 3

ShortCircuited ==
    /\ LinesOf("usage") \cup LinesOf("version") # {}
    /\ LinesOf("Unknown option: ") = {}

C16_SwapUsedWithinTotal ==
    (pc = "returned" /\ FlagAssigned /\ stats.has_swap_info # 0) =>
        stats.swap_used <= stats.swap_total

(* what standard output has received, as the texts of its lines *)
Stdout ==
    LET lines == SelectSeq(out, LAMBDA l : l.stream = "stdout")
    IN  [k \in 1 .. Len(lines) |-> lines[k].text]

(* C17: standard output stays empty until retrieve_mem_stats has returned *)
(* (every platform query is over), report lines exist only in a run that  *)
(* exits 0, and a run that queried the platform and exited 0 has written  *)
(* to standard output exactly the header, the Mem: line and at most one   *)
(* Swap: line, in that order, and nothing to standard error.              *)
C17_StdoutOfSuccessfulRun ==
    /\ pc \notin {"parse", "exit"} => out = << >>
    /\ ReportLines # {} => (Exited /\ exit_status = <<0>>)
    /\ (Exited /\ exit_status = <<0>> /\ queries # << >>) =>
        /\ Stdout \in {<<"header", "Mem:">>, <<"header", "Mem:", "Swap:">>}
        /\ Len(out) = Len(Stdout)

C17_Witness ==
    /\ Exited
    /\ Len(queries) > 2
    /\ Stdout = <<"header", "Mem:", "Swap:">>

(* C18: whatever get_system_info returns, the Haiku snapshot has free =   *)
(* total - cached, 0 when cached is not below total, a whole number of    *)
(* pages; active, inactive, wired and buffers are 0, swap_total and       *)
(* swap_used are 0 and has_swap_info is 0; a Haiku run never prints a     *)
(* Swap: line.                                                            *)
C18_HaikuSnapshot ==
    platform = "Haiku" =>
        /\ SwapLines = {}
        /\ stats # NoLocals =>
            /\ DOMAIN stats = StatFields
            /\ stats.mem_free = IF stats.mem_cache < stats.mem_total
                                THEN stats.mem_total - stats.mem_cache
                                ELSE 0
            /\ stats.mem_free % B_PAGE_SIZE = 0
            /\ stats.mem_active = 0
            /\ stats.mem_inactive = 0
            /\ stats.mem_wired = 0
            /\ stats.mem_buffers = 0
            /\ stats.swap_total = 0
            /\ stats.swap_used = 0
            /\ stats.has_swap_info = 0

C18_Witness ==
    /\ platform = "Haiku"
    /\ Exited
    /\ MemLines # {}
    /\ stats.mem_cache > stats.mem_total
    /\ stats.mem_free = 0

----------------------------------------------------------------------------
(* Vocabulary of the properties of the FreeBSD back-end *)

Issued(name) == {k \in 1 .. Len(queries) : queries[k].name = name}

Succeeded(name) == {k \in Issued(name) : queries[k].ok}

(* the reads of vm.swap_info.<index>, in the order they were issued *)
SwapReads == SelectSeq(queries, LAMBDA q : q.name = "sysctl vm.swap_info")

(* a step taken after cache (and, past vfs.bufspace, buffers) was settled *)
CacheStaysSettled ==
    pc \in {"fb_bufspace", "fb_swap_mib", "fb_swap_dev", "returned"} =>
        /\ stats'.mem_cache = stats.mem_cache
        /\ pc # "fb_bufspace" => stats'.mem_buffers = stats.mem_buffers

(* one iteration of the swap loop: the device just read is in xsw *)
SwapLoopStep ==
    pc = "fb_swap_dev" =>
        IF pc' = "fb_swap_dev"
        THEN /\ loc'.dev = loc.dev + 1
             /\ stats'.swap_total =
                    U64(stats.swap_total + loc'.xsw.xsw_nblks * loc.page_size)
             /\ stats'.swap_used =
                    U64(stats.swap_used + loc'.xsw.xsw_used * loc.page_size)
        ELSE /\ pc' = "returned"
             /\ stats'.swap_total = stats.swap_total
             /\ stats'.swap_used = stats.swap_used

(* C19: once the FreeBSD back-end has settled cache and buffers: if the   *)
(* ARC size was read and is non-zero, cache is the ARC size, buffers is 0 *)
(* and neither traditional counter was queried; otherwise both were       *)
(* queried, cache is v_cache_count * page_size, or 0 if that read failed, *)
(* and buffers is vfs.bufspace, or 0 if that read failed.  Nothing later  *)
(* in the run changes either field.                                       *)
C19_FreeBSDCache ==
    /\ [](/\ pc = "fb_bufspace" =>
                stats.mem_cache =
                    IF Succeeded("vm.stats.vm.v_cache_count") # {}
                    THEN U64(loc.page_count * loc.page_size)
                    ELSE 0
          /\ pc = "fb_swap_mib" =>
                IF Succeeded("kstat.zfs.misc.arcstats.size") # {}
                   /\ loc.arc_size > 0
                THEN /\ stats.mem_cache = loc.arc_size
                     /\ stats.mem_buffers = 0
                     /\ Issued("vm.stats.vm.v_cache_count") = {}
                     /\ Issued("vfs.bufspace") = {}
                ELSE /\ Issued("vm.stats.vm.v_cache_count") # {}
                     /\ Issued("vfs.bufspace") # {}
                     /\ Succeeded("vm.stats.vm.v_cache_count") = {} =>
                            stats.mem_cache = 0
                     /\ stats.mem_buffers =
                            IF Succeeded("vfs.bufspace") # {}
                            THEN loc.page_count
                            ELSE 0)
    /\ [][CacheStaysSettled]_vars

C19_Witness ==
    /\ pc = "fb_swap_mib"
    /\ Succeeded("kstat.zfs.misc.arcstats.size") # {}
    /\ loc.arc_size = 0
    /\ Succeeded("vm.stats.vm.v_cache_count") # {}
    /\ stats.mem_cache > 0
    /\ stats.mem_buffers > 0

----------------------------------------------------------------------------
(* Vocabulary of the properties of the other back-ends *)

Returned == pc = "returned"

DragonFlySwapStep ==
    (pc = "df_swap_free" /\ pc' = "returned") =>
        LET swap_free == queries'[Len(queries')].arg IN
        /\ stats'.swap_total = loc.swap_size * loc.page_size
        /\ stats'.swap_used = U64(U32(loc.swap_size - swap_free) * loc.page_size)
        /\ swap_free <= loc.swap_size =>
                stats'.swap_used = (loc.swap_size - swap_free) * loc.page_size
        /\ stats'.has_swap_info = 1

(* C22: on DragonFly, when vm.swap_size and vm.swap_free are both read,   *)
(* swap_total is swap_size * page_size and swap_used is (swap_size -      *)
(* swap_free) * page_size, the difference taken as the program takes it,  *)
(* in u_int: it is the exact difference whenever swap_free does not       *)
(* exceed swap_size.  buffers is 0 from the moment it is assigned, on     *)
(* every path, and every returned snapshot has it.                        *)
C22_DragonFlySwap ==
    /\ [](platform = "DragonFly" =>
            /\ "mem_buffers" \in DOMAIN stats => stats.mem_buffers = 0
            /\ Returned => "mem_buffers" \in DOMAIN stats)
    /\ [][DragonFlySwapStep]_vars

C22_Witness ==
    /\ platform = "DragonFly"
    /\ Returned
    /\ Succeeded("vm.swap_free") # {}
    /\ stats.swap_total = 2
    /\ stats.swap_used = 2
    /\ stats.mem_buffers = 0

(* the step in which the macOS back-end asks for vm.swapusage: it writes  *)
(* the three swap fields and nothing else of the snapshot                 *)
MacOSSwapStep ==
    (pc = "mac_swapusage" /\ pc' # pc) =>
        /\ pc' = "returned"
        /\ exit_status' = exit_status
        /\ out' = out
        /\ \A f \in DOMAIN stats : stats'[f] = stats[f]
        /\ IF queries'[Len(queries')].ok
           THEN /\ stats'.has_swap_info = 1
                /\ stats'.swap_total \in ByteCounts
                /\ stats'.swap_used \in ByteCounts
           ELSE /\ stats'.has_swap_info = 0
                /\ stats'.swap_total = 0
                /\ stats'.swap_used = 0

(* C23: on macOS a failed vm.swapusage query does not abort the run: the  *)
(* swap totals are 0, swap is marked unavailable, the run prints the      *)
(* header and the Mem: line, no Swap: line and no diagnostic, and exits   *)
(* with status 0.  When the query succeeds swap is marked available, the  *)
(* totals are the structure's, and the Swap: line is printed from them.   *)
C23_MacOSSwapUsage ==
    /\ []((platform = "macOS" /\ Issued("vm.swapusage") # {}) =>
            /\ Returned \/ Exited
            /\ Diagnostics = {}
            /\ IF Succeeded("vm.swapusage") = {}
               THEN /\ stats.swap_total = 0
                    /\ stats.swap_used = 0
                    /\ stats.has_swap_info = 0
                    /\ Exited =>
                        /\ Stdout = <<"header", "Mem:">>
                        /\ SwapLines = {}
                        /\ exit_status = <<0>>
               ELSE /\ stats.has_swap_info = 1
                    /\ Exited =>
                        /\ Stdout = <<"header", "Mem:", "Swap:">>
                        /\ out[3].cols[1] = stats.swap_total
                        /\ out[3].cols[2] = stats.swap_used
                        /\ exit_status = <<0>>)
    /\ [][MacOSSwapStep]_vars

C23_Witness ==
    /\ platform = "macOS"
    /\ Exited
    /\ Failed({"vm.swapusage"}) # {}
    /\ stats.has_swap_info = 0
    /\ Stdout = <<"header", "Mem:">>
    /\ exit_status = <<0>>

(* the pages of the first n entries of a swap table, and those of them in *)
(* use, each entry being <<ste_pages, ste_free>>                          *)
RECURSIVE PagesOf(_, _)
PagesOf(ents, n) == IF n = 0 THEN 0 ELSE PagesOf(ents, n - 1) + ents[n][1]

RECURSIVE PagesInUseOf(_, _)
PagesInUseOf(ents, n) ==
    IF n = 0 THEN 0
    ELSE PagesInUseOf(ents, n - 1) + U64(ents[n][1] - ents[n][2])

(* the step in which the illumos back-end returns: after the table was    *)
(* listed, after the listing failed, or after a count of n <= 0           *)
IllumosSwapStep ==
    (platform = "illumos" /\ pc' = "returned" /\ pc # pc') =>
        LET q == queries'[Len(queries')] IN
        /\ exit_status' = exit_status
        /\ out' = out
        /\ IF q.name = "swapctl SC_LIST" /\ q.ok
           THEN /\ Len(q.arg) = loc.n
                /\ stats'.swap_total = U64(PagesOf(q.arg, loc.n) * loc.page_size)
                /\ stats'.swap_used =
                        U64(PagesInUseOf(q.arg, loc.n) * loc.page_size)
                /\ (\A k \in 1 .. loc.n : q.arg[k][2] <= q.arg[k][1]) =>
                        stats'.swap_used =
                            (PagesOf(q.arg, loc.n) - PagesOf([k \in 1 .. loc.n |->
                                <<q.arg[k][2], 0>>], loc.n)) * loc.page_size
           ELSE /\ \/ q.name = "swapctl SC_LIST" /\ ~q.ok
                   \/ q.name = "swapctl SC_GETNSWP" /\ q.arg <= 0
                /\ stats'.swap_total = 0
                /\ stats'.swap_used = 0

(* C24: on illumos swap_total and swap_used are the sums, over all n      *)
(* entries of the swap table, of pages * page_size and (pages - free) *   *)
(* page_size, the difference taken as the program takes it; a table of    *)
(* no entries or a failed listing gives swap_total = swap_used = 0 and    *)
(* the run goes on to print the Mem: line and exit with status 0.  active *)
(* and inactive are 0 whenever assigned, and cache is 0 unless the ARC    *)
(* size was found.                                                        *)
C24_IllumosSwapTable ==
    /\ [](platform = "illumos" =>
            /\ \A f \in {"mem_active", "mem_inactive"} :
                    f \in DOMAIN stats => stats[f] = 0
            /\ (Returned \/ MemLines # {}) =>
                    /\ {"mem_active", "mem_inactive", "mem_cache"}
                            \subseteq DOMAIN stats
                    /\ Succeeded("kstat_data_lookup size") = {} =>
                            stats.mem_cache = 0
            /\ (\/ Failed({"swapctl SC_LIST", "swapctl SC_GETNSWP"}) # {}
                \/ \E k \in Issued("swapctl SC_GETNSWP") : queries[k].arg = 0) =>
                    /\ Returned \/ Exited
                    /\ stats.swap_total = 0
                    /\ stats.swap_used = 0
                    /\ Diagnostics = {}
                    /\ Exited => (MemLines # {} /\ exit_status = <<0>>))
    /\ [][IllumosSwapStep]_vars

C24_Witness ==
    /\ platform = "illumos"
    /\ Returned
    /\ \E k \in Succeeded("swapctl SC_LIST") :
            queries[k].arg = <<(<<1, 0>>), (<<1, 1>>)>>
    /\ stats.swap_total = 4
    /\ stats.swap_used = 2
    /\ stats.mem_active = 0
    /\ stats.mem_cache = 1

(* no query of the log repeats an earlier one; the reads of the swap      *)
(* devices differ by their index                                          *)
SingleAttempts ==
    \A k \in 1 .. Len(queries), m \in 1 .. Len(queries) :
        (k < m /\ queries[k].name = queries[m].name) =>
            /\ queries[k].name = "sysctl vm.swap_info"
            /\ queries[k].ok
            /\ queries[k].arg < queries[m].arg

(* C25: within one run every platform query is attempted at most once,    *)
(* none is issued again after it failed, and the failure of a query for a *)
(* required counter is the last query of the run, which has ended.        *)
C25_SingleAttemptNoLaterQuery ==
    /\ SingleAttempts
    /\ \A k \in Failed(RequiredQueries) :
        /\ k = Len(queries)
        /\ Exited

(* C26: every conversion of page counts to bytes is exact, nothing being  *)
(* lost at the width of a counter: on FreeBSD mem_total is page_count *   *)
(* page_size, on macOS each byte field is its counter times the page      *)
(* size, and mem_cache is the sum speculative_count + purgeable_count     *)
(* times the page size, for all values of the counters.                   *)
C26_ConversionsAre64Bit ==
    /\ pc = "fb_free_count" =>
            stats.mem_total = loc.page_count * loc.page_size
    /\ pc = "fb_active_count" =>
            stats.mem_free = loc.page_count * loc.page_size
    /\ (platform = "macOS" /\ "vm_stats" \in DOMAIN loc) =>
            LET v == loc.vm_stats
                ps == loc.page_size
            IN  /\ stats.mem_free = v.free_count * ps
                /\ stats.mem_active = v.active_count * ps
                /\ stats.mem_inactive = v.inactive_count * ps
                /\ stats.mem_wired = v.wire_count * ps
                /\ stats.mem_buffers = v.external_page_count * ps
                /\ stats.mem_cache =
                        (v.speculative_count + v.purgeable_count) * ps

(* the fields of the snapshot that main reads: free.c:949-965 and 983-990 *)
FieldsMainReads ==
    {"mem_total", "mem_free", "mem_inactive", "mem_cache", "mem_buffers",
     "swap_total", "swap_used", "has_swap_info"}

(* C27: whenever retrieve_mem_stats has returned, every field of the      *)
(* snapshot that main goes on to read, has_swap_info in particular, has   *)
(* been assigned by the back-end.                                         *)
C27_SnapshotAssignedOnReturn ==
    Returned => FieldsMainReads \subseteq DOMAIN stats

(* a step of the argument loop moves to the next argument or leaves the   *)
(* loop where it stands                                                   *)
LeftToRightStep ==
    /\ i' \in {i, i + 1}
    /\ i' = i + 1 => (pc = "parse" /\ pc' = "parse" /\ UnitOf(argv[i]) # "none")
    /\ (pc = "parse" /\ pc' = "exit") =>
            /\ i = FirstDecisive
            /\ out' = OptionOutput(argv[i])
            /\ exit_status' = <<OptionReturn(argv[i])>>

(* C28: the arguments are processed strictly from left to right.  The     *)
(* first one that is --help, -V/--version or unrecognized decides the     *)
(* outcome and no later argument is examined: the index never passes it,  *)
(* no query is made and no report line is printed, whatever follows it    *)
(* and whatever unit selector precedes it.  --help --bogus ends with      *)
(* status 0 and the usage text only, --bogus --help with status 1, and    *)
(* -m --bogus prints no report.                                           *)
C28_LeftToRight ==
    /\ [](/\ FirstDecisive # 0 =>
                /\ i <= FirstDecisive
                /\ queries = << >>
                /\ ReportLines = {}
                /\ pc \in {"parse", "exit"}
                /\ Exited =>
                    /\ i = FirstDecisive
                    /\ out = OptionOutput(argv[FirstDecisive])
                    /\ exit_status = <<OptionReturn(argv[FirstDecisive])>>
          /\ (argv = <<"--help", "--bogus">> /\ Exited) =>
                (exit_status = <<0>> /\ out = <<HelpLine>>)
          /\ (argv = <<"--bogus", "--help">> /\ Exited) =>
                (exit_status = <<1>> /\ out = <<UnknownLine("--bogus"), HelpLine>>)
          /\ (argv = <<"-m", "--bogus">> /\ Exited) =>
                (exit_status = <<1>> /\ MemLines = {}))
    /\ [][LeftToRightStep]_vars

C28_Witness ==
    /\ argv = <<"--help", "--bogus">>
    /\ Exited
    /\ i = 1
    /\ exit_status = <<0>>
    /\ out = <<HelpLine>>

(* the unit in force after the first n arguments: that of the last unit   *)
(* selector among them, Kilo when there is none                           *)
SelectedUnit(n) ==
    LET S == {k \in 1 .. n : UnitOf(argv[k]) # "none"}
    IN  IF S = {} THEN "UNIT_KILO"
        ELSE UnitOf(argv[CHOOSE k \in S : \A m \in S : m <= k])

(* C29: the unit of the report is that of the last unit selector on the   *)
(* command line (-b/-k/-m/-g/-h or a long form), Kilo when there is none; *)
(* earlier selectors have no effect, and a command line made of selectors *)
(* only, repeated or mixed in any way, is never an error: nothing is      *)
(* written about the options and the run reaches the back-end.            *)
C29_LastSelectorWins ==
    /\ pc = "parse" => unit = SelectedUnit(i - 1)
    /\ FirstDecisive = 0 =>
        /\ pc # "parse" => unit = SelectedUnit(Len(argv))
        /\ LinesOf("Unknown option: ") \cup LinesOf("usage") = {}
        /\ \A k \in MemLines \cup SwapLines :
                out[k].unit = SelectedUnit(Len(argv))
        /\ Exited =>
            /\ queries # << >>
            /\ exit_status = <<1>> <=> Diagnostics # {}
            /\ exit_status = <<0>> <=> MemLines # {}

C29_Witness ==
    /\ argv = <<"-b", "--giga", "-h">>
    /\ Exited
    /\ unit = "UNIT_HUMAN"
    /\ exit_status = <<0>>
    /\ \E k \in MemLines : out[k].unit = "UNIT_HUMAN"

(* the number in the buffer, in tenths *)
DisplayedTenths ==
    (loc.buf.whole[1] + loc.buf.whole[2] * KILOBYTE) * 10 + loc.buf.tenth[1]

(* the tier is that of the byte count itself, whatever the rounding does  *)
TierFromUnroundedValue ==
    \A k \in 1 .. 5 :
        (~WideLess(loc.value, Power(k)) /\ WideLess(loc.value, Power(k + 1))) =>
            /\ TierIndex(loc.buf.suffix) = k
            /\ \A j \in Limbs : j > 2 => loc.buf.whole[j] = 0

(* C30, as stated: in Human mode every byte count v with 1024^k <= v <    *)
(* 1024^(k+1) is rendered with the letter of tier k, chosen before the    *)
(* rounding to one decimal, so that the number displayed for any v of     *)
(* 1024 or more lies in [1.0, 1024.0].                                    *)
C30_HumanRangeAsStated ==
    (Formatted /\ unit = "UNIT_HUMAN" /\ ~WideLess(loc.value, Wide(KILOBYTE))) =>
        /\ TierFromUnroundedValue
        /\ \A j \in Limbs : j > 2 => loc.buf.whole[j] = 0
        /\ DisplayedTenths >= 10
        /\ DisplayedTenths <= 10240

(* C30: in Human mode every byte count v with 1024^k <= v < 1024^(k+1),   *)
(* k = 1 .. 5, is rendered with the letter of tier k, chosen from v       *)
(* before the rounding to one decimal: 1048575 gives 1024.0K, not 1.0M.   *)
(* The number displayed lies in [1.0, 1024.0] for every v below 1024^6;   *)
(* P is the last tier, so from 1024^6 on the letter stays P and the       *)
(* number lies in [1024.0, 16384.0].                                      *)
C30_HumanTierBeforeRounding ==
    (Formatted /\ unit = "UNIT_HUMAN" /\ ~WideLess(loc.value, Wide(KILOBYTE))) =>
        /\ TierFromUnroundedValue
        /\ \A j \in Limbs : j > 2 => loc.buf.whole[j] = 0
        /\ loc.value = <<1023, 1023, 0, 0, 0, 0, 0>> =>
                loc.buf = Buf(Wide(1024), <<0>>, "K")
        /\ IF WideLess(loc.value, Power(6))
           THEN DisplayedTenths >= 10 /\ DisplayedTenths <= 10240
           ELSE /\ loc.buf.suffix = "P"
                /\ DisplayedTenths >= 10240
                /\ DisplayedTenths <= 163840

C30_Witness ==
    /\ Formatted
    /\ unit = "UNIT_HUMAN"
    /\ loc.value = <<1023, 1023, 0, 0, 0, 0, 0>>
    /\ loc.buf = Buf(Wide(1024), <<0>>, "K")

====
